---- MODULE Spec2Model ----
(***************************************************************************)
(* Model of main.py: the exam-table pipeline compile_exams_table (fetch,   *)
(* classify, sort and de-double, render) and the pure helpers parse_date   *)
(* and render_group.                                                       *)
(*                                                                         *)
(* Text.  A Python str is modelled as a sequence of one-character strings. *)
(* The module is ASCII, so each Cyrillic letter of the program's literals  *)
(* is written as one Latin letter; CodePoint gives the Unicode code point  *)
(* of the letter it stands for, which is what Python's str ordering uses:  *)
(*   a=U+0430  B=U+0411  S=U+0421  v=U+0435  z=U+0437  i=U+0438  k=U+043A  *)
(*   m=U+043C  n=U+043D  o=U+043E  r=U+0440  s=U+0441  t=U+0442  u=U+0443  *)
(*   h=U+0447  e=U+044D  q=U+044F  y=U+0451                                *)
(*                                                                         *)
(* Objects.  exams_list is the heap of Exam objects in fetch order; the    *)
(* buckets hold references to them, i.e. indices into exams_list.          *)
(***************************************************************************)
EXTENDS Integers, Sequences, FiniteSets, TLC

VARIABLES
    exams_list,   \* compile_exams_table: exams_list, the Exam objects
    i,            \* compile_exams_table: position of the fetch loop in educator_aliases
    buckets,      \* compile_exams_table: buckets, name -> list of Exam references
    sorted,       \* per bucket, the list `bucket` right after bucket.sort (line 116)
    merged_into,  \* history: for a discarded exam2, the exam1 it was a double of; else 0
    pc,           \* position in compile_exams_table
    cursor,       \* position of the de-double loop in the bucket names (line 115)
    error,        \* the uncaught exception that ended the run, or "none"
    arg,          \* arguments of the pure function under call (parse_date, render_group)
    ret           \* its outcome

vars == <<exams_list, i, buckets, sorted, merged_into, pc, cursor, error, arg, ret>>

-----------------------------------------------------------------------------
(* Bounds of the model *)

\* the largest number of rows, over all educators, the timetable service returns
MaxExams == 4

-----------------------------------------------------------------------------
(* Text *)

CodePoint ==
    (" " :> 32) @@ ("(" :> 40) @@ (")" :> 41) @@ ("-" :> 45) @@ ("." :> 46) @@
    ("0" :> 48) @@ ("1" :> 49) @@ ("2" :> 50) @@ ("3" :> 51) @@ ("4" :> 52) @@
    ("5" :> 53) @@ ("6" :> 54) @@ ("7" :> 55) @@ ("8" :> 56) @@ ("9" :> 57) @@
    ("A" :> 65) @@ ("P" :> 80) @@ ("x" :> 120) @@
    ("B" :> 1041) @@ ("S" :> 1057) @@
    ("a" :> 1072) @@ ("v" :> 1077) @@ ("z" :> 1079) @@ ("i" :> 1080) @@
    ("k" :> 1082) @@ ("m" :> 1084) @@ ("n" :> 1085) @@ ("o" :> 1086) @@
    ("r" :> 1088) @@ ("s" :> 1089) @@ ("t" :> 1090) @@ ("u" :> 1091) @@
    ("h" :> 1095) @@ ("e" :> 1101) @@ ("q" :> 1103) @@ ("y" :> 1105)

Digits == {"0", "1", "2", "3", "4", "5", "6", "7", "8", "9"}

\* Python str `<`: lexicographic by code point, a proper prefix is smaller
RECURSIVE StrLess(_, _)
StrLess(s, t) ==
    IF t = <<>> THEN FALSE
    ELSE IF s = <<>> THEN TRUE
    ELSE IF Head(s) /= Head(t) THEN CodePoint[Head(s)] < CodePoint[Head(t)]
    ELSE StrLess(Tail(s), Tail(t))

\* Python `sub in s` for str
Contains(s, sub) ==
    \E k \in 0..(Len(s) - Len(sub)) : SubSeq(s, k + 1, k + Len(sub)) = sub

\* Python s.index(c): the first position (from 1) of the character c, 0 when absent
IndexOf(s, c) ==
    IF \E k \in 1..Len(s) : s[k] = c
    THEN CHOOSE k \in 1..Len(s) : s[k] = c /\ \A j \in 1..(k - 1) : s[j] /= c
    ELSE 0

\* the literals of main.py
zachet == <<"z", "a", "h", "y", "t">>
ekzamen == <<"e", "k", "z", "a", "m", "v", "n">>
komissiya == <<"k", "o", "m", "i", "s", "s", "i", "q">>
mkn == <<"m", "k", "n">>
dash_mm == <<"-", "m", "m">>
space_kurs == <<" ", "k", "u", "r", "s", ")">>
et_al == <<" ", "e", "t", " ", "a", "l", ".">>

-----------------------------------------------------------------------------
(* render_group and render_educator *)

\* the outcome of a call: a returned value or an uncaught exception
Return(v) == [kind |-> "return", value |-> v]
Raise(e) == [kind |-> "raise", exc |-> e]
\* Python values: None, and a dict with its items
None == [kind |-> "None"]
Dict(items) == [kind |-> "dict", items |-> items]
\* no call made, or no outcome yet
NoCall == [kind |-> "pending"]

\* length of the longest run of characters of `class` starting at position p of s
RECURSIVE Run(_, _, _)
Run(s, p, class) ==
    IF p <= Len(s) /\ s[p] \in class THEN 1 + Run(s, p + 1, class) ELSE 0

GroupCodeClass == Digits \cup {"B", "S"}

\* group_regex.match(full_group_name): '^(\d+)\.([BS0-9]+-mm).*(\d) kurs\)'.
\* \d+ and [BS0-9]+ can only take their whole run, because the character that must
\* follow is outside the class; the greedy .* leaves the last '(\d) kurs)' there is.
group_regex(s) ==
    LET d == Run(s, 1, Digits)
        c == Run(s, d + 2, GroupCodeClass)
        e == d + 1 + c + Len(dash_mm)    \* the last position of group 2
        ends == {p \in (e + 1)..(Len(s) - Len(space_kurs)) :
                    /\ s[p] \in Digits
                    /\ SubSeq(s, p + 1, p + Len(space_kurs)) = space_kurs}
    IN  IF /\ d >= 1
           /\ d + 1 <= Len(s) /\ s[d + 1] = "."
           /\ c >= 1
           /\ SubSeq(s, d + 2 + c, e) = dash_mm
           /\ ends /= {}
        THEN [matched |-> TRUE,
              group2 |-> SubSeq(s, d + 2, e),
              group3 |-> <<s[CHOOSE p \in ends : \A r \in ends : r <= p]>>]
        ELSE [matched |-> FALSE]

\* a group_aliases that is None or {} is falsy
Truthy(aliases) ==
    aliases.kind = "dict" /\ DOMAIN aliases.items /= {}

\* full_group_name.index(' ') raises ValueError when the name holds no space
render_group(full_group_name, aliases) ==
    LET sp == IndexOf(full_group_name, " ")
        group_name == SubSeq(full_group_name, 1, sp - 1)
        m == group_regex(full_group_name)
    IN  IF sp = 0 THEN Raise("ValueError")
        ELSE IF Truthy(aliases) /\ m.matched /\ m.group2 \in DOMAIN aliases.items
        THEN Return(group_name \o <<" ", "(">> \o m.group3
                        \o aliases.items[m.group2] \o <<")">>)
        ELSE Return(group_name)

\* educator_aliases as the ordered dict it is: the (id, alias) items in file order
educator_aliases == << [id |-> "id1", alias |-> <<"A">>],
                       [id |-> "id2", alias |-> <<"P">>] >>

EducatorIds == {educator_aliases[k].id : k \in DOMAIN educator_aliases}

\* the position of an educator in educator_aliases
EducatorPos(id) == CHOOSE k \in DOMAIN educator_aliases : educator_aliases[k].id = id

render_educator(educator_id) == educator_aliases[EducatorPos(educator_id)].alias

\* the arguments main passes: excluded_depts=['mkn'] and the table of groups.txt
excluded_depts == {mkn}
group_aliases == Dict(<<"B", "0", "1", "-", "m", "m">> :> <<"1">>)

-----------------------------------------------------------------------------
(* The rows the timetable service may return *)

Today == 2

G1 == <<"2", "1", ".", "B", "0", "1", "-", "m", "m", " ", "(", "1", " ", "k", "u", "r", "s", ")">>
G2 == <<"2", "1", ".", "B", "0", "1", "-", "m", "k", "n", " ", "(", "1", " ", "k", "u", "r", "s", ")">>

Row(time, date, title, where, group_full) ==
    [time |-> time, date |-> date, title |-> title, where |-> where,
     group_full |-> group_full]

\* a small timetable; every title passes the exam-type filter of parse_tt_excel
\* (line 76).  It holds two exams that differ in time only, two regular
\* exams whose dates and titles are ordered oppositely, a commission exam, two past
\* exams (one of them a commission) and an exam of an excluded department.
ExamRows ==
    {Row(<<10, 0>>, Today, ekzamen, "room 1", G1),
     Row(<<14, 30>>, Today, ekzamen, "room 1", G1),
     Row(<<10, 0>>, Today + 1, zachet, "room 2", G1),
     Row(<<10, 0>>, Today, zachet \o <<" ">> \o komissiya, "room 1", G1),
     Row(<<10, 0>>, Today - 1, zachet, "room 1", G1),
     Row(<<10, 0>>, Today - 1, zachet \o <<" ">> \o komissiya, "room 1", G1),
     Row(<<10, 0>>, Today, ekzamen, "room 1", G2)}

\* Exam(educator_id, time, date, title, where, group_full) with __post_init__
Exam(educator_id, row) ==
    [educator_id |-> educator_id, educator |-> <<>>, time |-> row.time,
     date |-> row.date, title |-> row.title, where |-> row.where,
     group_full |-> row.group_full, group |-> <<>>, double |-> FALSE]

\* the dataclass fields, which asdict returns; double is a plain attribute
Fields == {"educator_id", "educator", "time", "date", "title", "where",
           "group_full", "group"}

\* is_double with the time left out of the comparison
is_double_ignoring_time(self, other) ==
    {entry \in Fields \ {"time"} : self[entry] /= other[entry]} = {"educator_id"}

is_double(self, other) ==
    {entry \in Fields : self[entry] /= other[entry]} = {"educator_id"}

-----------------------------------------------------------------------------
(* compile_exams_table *)

BucketNames == <<"regular", "commission", "past">>

SeqsUpTo(S, n) == UNION {[1..k -> S] : k \in 0..n}

\* bucket_name with the commission test made before the date test
bucket_name_commission_first(exam) ==
    IF \A dept \in excluded_depts : ~Contains(exam.group_full, dept)
    THEN IF Contains(exam.title, komissiya) THEN "commission"
         ELSE IF exam.date < Today THEN "past"
         ELSE "regular"
    ELSE ""

\* lines 108-113: the bucket of an exam, "" when its group is of an excluded department
bucket_name(exam) ==
    IF \A dept \in excluded_depts : ~Contains(exam.group_full, dept)
    THEN IF exam.date < Today THEN "past"
         ELSE IF Contains(exam.title, komissiya) THEN "commission"
         ELSE "regular"
    ELSE ""

\* lines 107-114: the references appended to the bucket `name`, in list order, where
\* names[k] is the bucket name of exam k
Classified(names, name) ==
    SelectSeq([k \in 1..Len(names) |-> k], LAMBDA k : names[k] = name)

\* the sort key (exam.date, exam.title), compared as Python compares tuples
KeyLess(a, b) ==
    \/ exams_list[a].date < exams_list[b].date
    \/ /\ exams_list[a].date = exams_list[b].date
       /\ StrLess(exams_list[a].title, exams_list[b].title)

\* list.sort(key, reverse) is stable in both directions: x goes behind every element
\* already placed that it does not strictly precede
InsertAt(s, x, n) == SubSeq(s, 1, n) \o <<x>> \o SubSeq(s, n + 1, Len(s))

\* Insert as a descending order got by reversing an ascending sort: with reverse, x
\* goes before the elements of equal key
InsertTiesReversed(s, x, reverse) ==
    InsertAt(s, x, Cardinality({p \in 1..Len(s) :
        IF reverse THEN KeyLess(x, s[p]) ELSE ~KeyLess(x, s[p])}))

Insert(s, x, reverse) ==
    InsertAt(s, x, Cardinality({p \in 1..Len(s) :
        ~(IF reverse THEN KeyLess(s[p], x) ELSE KeyLess(x, s[p]))}))

RECURSIVE Sort(_, _)
Sort(bucket, reverse) ==
    IF bucket = <<>> THEN <<>>
    ELSE Insert(Sort(SubSeq(bucket, 1, Len(bucket) - 1), reverse),
                bucket[Len(bucket)], reverse)

\* Walk that flags the discarded exam2 instead of exam1
RECURSIVE WalkFlagsNext(_, _, _, _, _)
WalkFlagsNext(bucket, exam1, bucket_dedoubled, doubles, merged) ==
    IF bucket = <<>>
    THEN [bucket_dedoubled |-> bucket_dedoubled, doubles |-> doubles, merged |-> merged]
    ELSE LET exam2 == Head(bucket)
         IN  IF is_double(exams_list[exam1], exams_list[exam2])
             THEN WalkFlagsNext(Tail(bucket), exam1, bucket_dedoubled,
                       doubles \cup {exam2}, [merged EXCEPT ![exam2] = exam1])
             ELSE WalkFlagsNext(Tail(bucket), exam2, Append(bucket_dedoubled, exam2),
                       doubles, merged)

\* Walk that keeps the later exam of a pair of doubles: exam2 takes the place of exam1
RECURSIVE WalkKeepsLast(_, _, _, _, _)
WalkKeepsLast(bucket, exam1, bucket_dedoubled, doubles, merged) ==
    IF bucket = <<>>
    THEN [bucket_dedoubled |-> bucket_dedoubled, doubles |-> doubles, merged |-> merged]
    ELSE LET exam2 == Head(bucket)
         IN  IF is_double(exams_list[exam1], exams_list[exam2])
             THEN WalkKeepsLast(Tail(bucket), exam2,
                       [bucket_dedoubled EXCEPT ![Len(bucket_dedoubled)] = exam2],
                       doubles \cup {exam2},
                       [k \in DOMAIN merged |->
                           IF k = exam1 \/ merged[k] = exam1 THEN exam2 ELSE merged[k]])
             ELSE WalkKeepsLast(Tail(bucket), exam2, Append(bucket_dedoubled, exam2),
                       doubles, merged)

\* lines 119-124: the walk over the rest of the sorted bucket
RECURSIVE Walk(_, _, _, _, _)
Walk(bucket, exam1, bucket_dedoubled, doubles, merged) ==
    IF bucket = <<>>
    THEN [bucket_dedoubled |-> bucket_dedoubled, doubles |-> doubles, merged |-> merged]
    ELSE LET exam2 == Head(bucket)
         IN  IF is_double(exams_list[exam1], exams_list[exam2])
             THEN Walk(Tail(bucket), exam1, bucket_dedoubled,
                       doubles \cup {exam1}, [merged EXCEPT ![exam2] = exam1])
             ELSE Walk(Tail(bucket), exam2, Append(bucket_dedoubled, exam2),
                       doubles, merged)

Idle == /\ arg = NoCall
        /\ ret = NoCall

Init ==
    /\ exams_list = <<>>
    /\ i = 1
    /\ buckets = [name \in {} |-> <<>>]
    /\ sorted = [name \in {} |-> <<>>]
    /\ merged_into = <<>>
    /\ pc = "fetch"
    /\ cursor = 1
    /\ error = "none"
    /\ Idle

\* lines 86-98, one iteration: the rows of educator i, parsed, extend exams_list
Fetch ==
    /\ pc = "fetch"
    /\ i <= Len(educator_aliases)
    /\ \E rows \in SeqsUpTo(ExamRows, MaxExams - Len(exams_list)) :
         exams_list' = exams_list \o
             [k \in 1..Len(rows) |-> Exam(educator_aliases[i].id, rows[k])]
    /\ i' = i + 1
    /\ UNCHANGED <<buckets, sorted, merged_into, pc, cursor, error, arg, ret>>

\* lines 100-114: the buckets are created and every exam is classified
Classify ==
    /\ pc = "fetch"
    /\ i > Len(educator_aliases)
    /\ \E names \in {[k \in 1..Len(exams_list) |-> bucket_name(exams_list[k])]} :
         buckets' = [name \in {BucketNames[k] : k \in DOMAIN BucketNames} |->
                        Classified(names, name)]
    /\ merged_into' = [k \in 1..Len(exams_list) |-> 0]
    /\ pc' = "dedouble"
    /\ UNCHANGED <<exams_list, i, sorted, cursor, error, arg, ret>>

\* lines 116-125, one iteration: sort the bucket, pop its head, walk the rest
Dedouble ==
    /\ pc = "dedouble"
    /\ cursor <= Len(BucketNames)
    /\ \E bucket \in {Sort(buckets[BucketNames[cursor]], BucketNames[cursor] = "past")} :
         /\ sorted' = (BucketNames[cursor] :> bucket) @@ sorted
         /\ IF bucket = <<>>
            THEN \* bucket.pop(0) of an empty list
                 /\ error' = "IndexError"
                 /\ pc' = "failed"
                 /\ UNCHANGED <<exams_list, buckets, merged_into, cursor>>
            ELSE \E w \in {Walk(Tail(bucket), Head(bucket), <<Head(bucket)>>,
                                 {}, merged_into)} :
                 /\ exams_list' = [k \in 1..Len(exams_list) |->
                        IF k \in w.doubles
                        THEN [exams_list[k] EXCEPT !.double = TRUE]
                        ELSE exams_list[k]]
                 /\ buckets' = [buckets EXCEPT ![BucketNames[cursor]] =
                                   w.bucket_dedoubled]
                 /\ merged_into' = w.merged
                 /\ cursor' = cursor + 1
                 /\ UNCHANGED <<pc, error>>
    /\ UNCHANGED <<i, arg, ret>>

\* the references the buckets hold
Survivors ==
    UNION {{buckets[name][k] : k \in 1..Len(buckets[name])} : name \in DOMAIN buckets}

\* lines 130-133 for one exam
Rendered(exam) ==
    LET educator == render_educator(exam.educator_id)
    IN  [exam EXCEPT !.educator = IF exam.double THEN educator \o et_al ELSE educator,
                     !.group = render_group(exam.group_full, group_aliases).value]

\* lines 127-136: every exam of every bucket is rendered and the report is returned
Render ==
    /\ pc = "dedouble"
    /\ cursor > Len(BucketNames)
    /\ IF \E k \in Survivors :
            render_group(exams_list[k].group_full, group_aliases).kind = "raise"
       THEN /\ error' = "ValueError"
            /\ pc' = "failed"
            /\ UNCHANGED exams_list
       ELSE /\ exams_list' = [k \in 1..Len(exams_list) |->
                   IF k \in Survivors THEN Rendered(exams_list[k]) ELSE exams_list[k]]
            /\ pc' = "done"
            /\ UNCHANGED error
    /\ UNCHANGED <<i, buckets, sorted, merged_into, cursor, arg, ret>>

Next == Fetch \/ Classify \/ Dedouble \/ Render

Spec == Init /\ [][Next]_vars

-----------------------------------------------------------------------------
(* parse_date *)

DigitChar == <<"0", "1", "2", "3", "4", "5", "6", "7", "8", "9">>

\* int(s) for a str of digits
RECURSIVE int(_)
int(s) ==
    IF s = <<>> THEN 0
    ELSE 10 * int(SubSeq(s, 1, Len(s) - 1)) + (CodePoint[s[Len(s)]] - CodePoint["0"])

\* single_date_regex.match(date_str): '^(\d+)\.(\d+)$'
single_date_regex(s) ==
    LET d == Run(s, 1, Digits)
        m == Run(s, d + 2, Digits)
    IN  IF /\ d >= 1
           /\ d + 1 <= Len(s) /\ s[d + 1] = "."
           /\ m >= 1
           /\ d + 1 + m = Len(s)
        THEN [matched |-> TRUE, group1 |-> SubSeq(s, 1, d),
              group2 |-> SubSeq(s, d + 2, Len(s))]
        ELSE [matched |-> FALSE]

IsLeap(year) == year % 4 = 0 /\ (year % 100 /= 0 \/ year % 400 = 0)

DaysInMonth(year, month) ==
    IF month = 2 THEN (IF IsLeap(year) THEN 29 ELSE 28)
    ELSE IF month \in {4, 6, 9, 11} THEN 30
    ELSE 31

\* datetime.date(year, month, day): ValueError unless the day exists
date(year, month, day) ==
    IF month \in 1..12 /\ day \in 1..DaysInMonth(year, month)
    THEN Return([year |-> year, month |-> month, day |-> day])
    ELSE Raise("ValueError")

\* year_of without the step to the next calendar year
year_of_no_rollover(today, month) ==
    IF 9 <= month /\ month <= 12 /\ 1 <= today.month /\ today.month <= 8
    THEN today.year - 1
    ELSE today.year

\* lines 49-53: the year of the academic year of today that holds the month
year_of(today, month) ==
    IF 9 <= month /\ month <= 12 /\ 1 <= today.month /\ today.month <= 8
    THEN today.year - 1
    ELSE IF 9 <= today.month /\ today.month <= 12 /\ 1 <= month /\ month <= 8
    THEN today.year + 1
    ELSE today.year

parse_date(date_str, today) ==
    LET m == single_date_regex(date_str)
    IN  IF m.matched
        THEN date(year_of(today, int(m.group2)), int(m.group2), int(m.group1))
        ELSE Return(None)

\* str(n), to write the date cells of the spreadsheet
RECURSIVE str(_)
str(n) ==
    IF n < 10 THEN <<DigitChar[n + 1]>>
    ELSE str(n \div 10) \o <<DigitChar[(n % 10) + 1]>>

\* the date cells: day.month for days 0..32 and months 0..13, also zero-padded, and
\* cells that are no single date
DateStrings ==
    {str(d) \o <<".">> \o str(m) : d \in 0..32, m \in 0..13}
    \cup {<<"0">> \o str(d) \o <<".">> \o <<"0">> \o str(m) : d \in 1..9, m \in 1..9}
    \cup {<<>>, <<"1">>, <<"1", ".">>, <<".", "9">>, <<"1", ".", "9", ".">>,
          <<"1", ".", "9", "-", "2", ".", "9">>, <<"1", "-", "9">>, <<"x", ".", "9">>}

\* the values of datetime.date.today()
Todays ==
    {[year |-> y, month |-> m, day |-> 15] : y \in {2023, 2024}, m \in 1..12}

\* the pipeline is not running
NotRunning ==
    /\ exams_list = <<>>
    /\ i = 1
    /\ buckets = <<>>
    /\ sorted = <<>>
    /\ merged_into = <<>>
    /\ pc = "idle"
    /\ cursor = 1
    /\ error = "none"

InitDate ==
    /\ NotRunning
    /\ arg \in {[fn |-> "parse_date", date_str |-> s, today |-> t] :
                  s \in DateStrings, t \in Todays}
    /\ ret = NoCall

CallParseDate ==
    /\ arg.fn = "parse_date"
    /\ ret = NoCall
    /\ ret' = parse_date(arg.date_str, arg.today)
    /\ UNCHANGED <<exams_list, i, buckets, sorted, merged_into, pc, cursor, error, arg>>

NextDate == CallParseDate

SpecDate == InitDate /\ [][NextDate]_vars

-----------------------------------------------------------------------------
(* render_group on its own *)

\* full group names put together from the parts the pattern looks at
GroupNames ==
    {n \o d \o c \o s \o m \o k \o t :
        n \in {<<>>, <<"2">>, <<"2", "1">>},
        d \in {<<".">>, <<>>},
        c \in {<<"B", "0", "1">>, <<"S", "2">>, <<"x">>, <<>>},
        s \in {dash_mm, <<"-", "m">>},
        m \in {<<>>, <<" ", "(">>, <<" ", "(", "3">> \o space_kurs \o <<" ">>},
        k \in {<<"1">>, <<"x">>, <<>>},
        t \in {space_kurs, <<" ", "k", "u", "r", "s">>, <<>>}}

AliasTables ==
    {None,
     Dict(<<>>),
     Dict(<<"B", "0", "1", "-", "m", "m">> :> <<"1">>),
     Dict((<<"S", "2", "-", "m", "m">> :> <<"2", "a">>)
            @@ (<<"B", "0", "1", "-", "m">> :> <<"7">>))}

InitGroup ==
    /\ NotRunning
    /\ arg \in {[fn |-> "render_group", full_group_name |-> g, group_aliases |-> a] :
                  g \in GroupNames, a \in AliasTables}
    /\ ret = NoCall

CallRenderGroup ==
    /\ arg.fn = "render_group"
    /\ ret = NoCall
    /\ ret' = render_group(arg.full_group_name, arg.group_aliases)
    /\ UNCHANGED <<exams_list, i, buckets, sorted, merged_into, pc, cursor, error, arg>>

NextGroup == CallRenderGroup

SpecGroup == InitGroup /\ [][NextGroup]_vars

-----------------------------------------------------------------------------
(* The claims *)

\* the fields other than the educator identifier that make an exam what it is
ExamFields == {"time", "date", "title", "where", "group_full"}

SameExam(a, b) == \A f \in ExamFields : exams_list[a][f] = exams_list[b][f]

SameKey(a, b) ==
    /\ exams_list[a].date = exams_list[b].date
    /\ exams_list[a].title = exams_list[b].title

Elems(seq) == {seq[p] : p \in 1..Len(seq)}

Count(seq, k) == Cardinality({p \in 1..Len(seq) : seq[p] = k})

Names == {BucketNames[k] : k \in DOMAIN BucketNames}

Excluded(k) == \E dept \in excluded_depts : Contains(exams_list[k].group_full, dept)

\* the de-double iteration of the bucket has run to its end (line 125)
Dedoubled(name) == name \in DOMAIN sorted /\ sorted[name] /= <<>>

AllDedoubled == \A name \in Names : Dedoubled(name)

\* the exams discarded as doubles of k
MergedInto(k) == {j \in 1..Len(merged_into) : merged_into[j] = k}

\* C1: in a de-doubled bucket, any two exams of the bucket that differ in the educator
\* only leave exactly one exam with their fields in the bucket, and it is flagged
\* double, wherever the two stood in the sorted list.
C1_AnyTwoDoublesMerge ==
    \A name \in DOMAIN sorted :
        Dedoubled(name) =>
            \A a, b \in Elems(sorted[name]) :
                (/\ a /= b
                 /\ SameExam(a, b)
                 /\ exams_list[a].educator_id /= exams_list[b].educator_id)
                => /\ Cardinality({p \in 1..Len(buckets[name]) :
                                      SameExam(buckets[name][p], a)}) = 1
                   /\ \A k \in Elems(buckets[name]) :
                          SameExam(k, a) => exams_list[k].double

\* C2: a bucket that got no exam from the classification is de-doubled without an
\* error and stays the empty list.
C2_EmptyBucketYieldsEmptyList ==
    \A name \in DOMAIN sorted :
        sorted[name] = <<>> =>
            /\ error = "none"
            /\ pc /= "failed"
            /\ buckets[name] = <<>>

\* the exam that is `current` when position p of the sorted bucket is looked at: the
\* last one before p that was not discarded
Current(name, p) ==
    sorted[name][CHOOSE q \in 1..(p - 1) :
        /\ merged_into[sorted[name][q]] = 0
        /\ \A r \in (q + 1)..(p - 1) : merged_into[sorted[name][r]] /= 0]

\* C3: the walk discards the next exam into the current one, which it flags double,
\* exactly when the two agree in every field other than the educator identifier, be
\* the two educators different or the same; otherwise the next exam is emitted.
C3_WalkEquality ==
    \A name \in DOMAIN sorted :
        Dedoubled(name) =>
            \A p \in 2..Len(sorted[name]) :
                IF SameExam(Current(name, p), sorted[name][p])
                THEN /\ merged_into[sorted[name][p]] = Current(name, p)
                     /\ exams_list[Current(name, p)].double
                     /\ sorted[name][p] \notin Elems(buckets[name])
                ELSE /\ merged_into[sorted[name][p]] = 0
                     /\ sorted[name][p] \in Elems(buckets[name])

\* the classification is done and no bucket is de-doubled yet
JustClassified == DOMAIN buckets /= {} /\ DOMAIN sorted = {}

\* the bucket the claim gives an exam that is not excluded
ClaimedBucket(k) ==
    IF exams_list[k].date < Today THEN "past"
    ELSE IF Contains(exams_list[k].title, komissiya) THEN "commission"
    ELSE "regular"

C5_SortedStable ==
    \A name \in DOMAIN sorted :
        Dedoubled(name) =>
            \A p, q \in 1..Len(buckets[name]) :
                p < q =>
                    /\ IF name = "past"
                       THEN ~KeyLess(buckets[name][p], buckets[name][q])
                       ELSE ~KeyLess(buckets[name][q], buckets[name][p])
                    /\ SameKey(buckets[name][p], buckets[name][q])
                           => buckets[name][p] < buckets[name][q]

\* the report is out and its past bucket holds two exams of equal (date, title)
C5_Witness ==
    /\ pc = "done"
    /\ \E p, q \in 1..Len(buckets["past"]) :
          p < q /\ SameKey(buckets["past"][p], buckets["past"][q])

\* C7: in the rendered report an exam shows its educator's alias followed by
\* ' et al.' exactly when some other fetched exam, equal to it in every field but
\* the educator, was discarded into it; otherwise it shows the alias alone.
C7_EtAlIffMerged ==
    pc = "done" =>
        \A k \in Survivors :
            /\ (exams_list[k].educator = render_educator(exams_list[k].educator_id) \o et_al)
                   = (MergedInto(k) /= {})
            /\ MergedInto(k) = {}
                   => exams_list[k].educator = render_educator(exams_list[k].educator_id)
            /\ \A j \in MergedInto(k) : j /= k /\ SameExam(j, k)

\* the report shows one merged exam and one exam nothing was merged into
C7_Witness ==
    /\ pc = "done"
    /\ \E k \in Survivors : MergedInto(k) /= {}
    /\ \E k \in Survivors : MergedInto(k) = {}

\* C8: once every bucket is de-doubled, the buckets hold fetched exams only, no exam
\* twice or in two buckets, no excluded exam; and every exam that is not excluded is
\* in the bucket it was classified into or was discarded into an exam of that
\* bucket that equals it in every field but the educator.
C8_Conservation ==
    AllDedoubled =>
        /\ \A name \in Names : Elems(buckets[name]) \subseteq 1..Len(exams_list)
        /\ \A k \in 1..Len(exams_list) :
              /\ Cardinality({name \in Names : k \in Elems(buckets[name])}) <= 1
              /\ \A name \in Names : Count(buckets[name], k) <= 1
              /\ Excluded(k) =>
                    /\ \A name \in Names : k \notin Elems(buckets[name])
                    /\ merged_into[k] = 0
              /\ ~Excluded(k) =>
                    \E name \in Names :
                        /\ k \in Elems(sorted[name])
                        /\ \/ k \in Elems(buckets[name]) /\ merged_into[k] = 0
                           \/ /\ k \notin Elems(buckets[name])
                              /\ merged_into[k] \in Elems(buckets[name])
                              /\ merged_into[k] /= k
                              /\ SameExam(k, merged_into[k])

\* every bucket is de-doubled, one exam discarded and another kept unmerged
C8_Witness ==
    /\ AllDedoubled
    /\ \E k \in 1..Len(exams_list) : merged_into[k] /= 0
    /\ \E k \in Survivors : MergedInto(k) = {}

\* the least of a non-empty set of numbers
Min(S) == CHOOSE x \in S : \A y \in S : x <= y

\* C9: a discarded exam was fetched after the exam it was discarded into and belongs
\* to a later educator of the alias table; so the alias the report shows before
\* ' et al.' is that of the earliest educator among the merged ones, in every bucket.
C9_FirstFetchedSurvives ==
    /\ \A k \in 1..Len(merged_into) :
          merged_into[k] /= 0 =>
              /\ merged_into[k] < k
              /\ EducatorPos(exams_list[merged_into[k]].educator_id)
                     < EducatorPos(exams_list[k].educator_id)
    /\ pc = "done" =>
          \A k \in Survivors :
              MergedInto(k) /= {} =>
                  exams_list[k].educator =
                      educator_aliases[Min({EducatorPos(exams_list[j].educator_id) :
                          j \in MergedInto(k) \cup {k}})].alias \o et_al

\* the report is out with a merged exam in the past bucket
C9_Witness ==
    /\ pc = "done"
    /\ \E k \in Elems(buckets["past"]) : MergedInto(k) /= {}

-----------------------------------------------------------------------------
(* The claims about render_group and parse_date *)

\* C6: render_group returns for every name and every alias table: the prefix up to
\* the first space followed by ' (' course digit, alias ')' when the table is not
\* empty, the name matches the pattern and the code is a key; the prefix otherwise.
C6_RenderGroupTotal ==
    (arg.fn = "render_group" /\ ret.kind /= "pending") =>
        /\ ret.kind = "return"
        /\ IF /\ Truthy(arg.group_aliases)
              /\ group_regex(arg.full_group_name).matched
              /\ group_regex(arg.full_group_name).group2
                     \in DOMAIN arg.group_aliases.items
           THEN ret.value =
                    SubSeq(arg.full_group_name, 1, IndexOf(arg.full_group_name, " ") - 1)
                    \o <<" ", "(">> \o group_regex(arg.full_group_name).group3
                    \o arg.group_aliases.items[group_regex(arg.full_group_name).group2]
                    \o <<")">>
           ELSE ret.value =
                    SubSeq(arg.full_group_name, 1, IndexOf(arg.full_group_name, " ") - 1)

\* the first year of the academic year (1 September to 31 August) that holds today
AcademicYear(today) == IF today.month >= 9 THEN today.year ELSE today.year - 1

InAcademicYear(d, y) ==
    \/ d.year = y /\ d.month >= 9
    \/ d.year = y + 1 /\ d.month <= 8

\* day.month is a day of the calendar, 29 February among them
CalendarDay(day, month) ==
    /\ month \in 1..12
    /\ day \in 1..(IF month = 2 THEN 29 ELSE IF month \in {4, 6, 9, 11} THEN 30 ELSE 31)

\* day.month is a day of the academic year that starts in the year y
DayOfAcademicYear(day, month, y) ==
    /\ month \in 1..12
    /\ day \in 1..DaysInMonth(IF month >= 9 THEN y ELSE y + 1, month)

ParsedDay == int(single_date_regex(arg.date_str).group1)
ParsedMonth == int(single_date_regex(arg.date_str).group2)

ReturnsDateOfAcademicYear ==
    /\ ret.kind = "return"
    /\ ret.value /= None
    /\ ret.value.day = ParsedDay
    /\ ret.value.month = ParsedMonth
    /\ InAcademicYear(ret.value, AcademicYear(arg.today))

\* C10 as claimed: parse_date returns, for every day.month that is a day of the
\* calendar, that day in the academic year of today, and None for a string that
\* is not digits.digits.
C10_CalendarDayInAcademicYear ==
    (arg.fn = "parse_date" /\ ret.kind /= "pending") =>
        IF single_date_regex(arg.date_str).matched
        THEN CalendarDay(ParsedDay, ParsedMonth) => ReturnsDateOfAcademicYear
        ELSE ret = Return(None)

\* C10 as amended: parse_date returns, for every day.month that is a day of the
\* academic year of today, that day; None for a string that is not digits.digits.
C10_DayOfAcademicYear ==
    (arg.fn = "parse_date" /\ ret.kind /= "pending") =>
        IF single_date_regex(arg.date_str).matched
        THEN DayOfAcademicYear(ParsedDay, ParsedMonth, AcademicYear(arg.today))
                 => ReturnsDateOfAcademicYear
        ELSE ret = Return(None)

\* in autumn 2023, 29.02 is parsed as 29 February 2024
C10_Witness ==
    /\ arg.fn = "parse_date"
    /\ arg.today.year = 2023 /\ arg.today.month >= 9
    /\ ret = Return([year |-> 2024, month |-> 2, day |-> 29])

====
